---- MODULE Spec2Model ----
(***************************************************************************)
(* TinyLink: the Link table and the request handlers that work on it.      *)
(*                                                                         *)
(*   POST /api/links          create     src/app/api/links/route.ts        *)
(*   GET  /:code              resolve    src/unnamed/part_002              *)
(*   GET  /api/links/:code    get        src/EXPLANATION.md (excerpt)      *)
(*   DELETE /api/links/:code  delete     src/EXPLANATION.md (excerpt)      *)
(*                                                                         *)
(* Every handler is an async function: between two awaited store calls     *)
(* any other handler may run.  One action is one store call of one request *)
(* together with the synchronous code of the handler around it (the        *)
(* validation before the first call, the response after the last one).     *)
(***************************************************************************)
EXTENDS Integers, Sequences, FiniteSets, TLC

\* ------------------------------------------------------------------ bounds

\* Number of requests a behaviour may hold (request slots).
MaxReq == 3

\* The same for a behaviour of SpecAuto in which a create names no code (the
\* loop of up to maxAttempts lookups of such a create is followed turn by
\* turn), and the number of such creates in it.
MaxAutoReq == 2
MaxAuto == 1

\* Number of store calls that fail (SpecFail).
MaxFault == 1

\* the successful creates without a code that are sent once more
MaxRetry == 1

\* The same for a create with a body of EdgeBodies (SpecBodies).
MaxEdgeReq == 2
MaxEdge == 1

\* Number of instants the clock may advance by, and of requests (SpecClock).
MaxTime == 2
MaxClockReq == 2

\* ------------------------------------------------------- program constants

\* const maxAttempts = 10
maxAttempts == 10
\* for (let i = 0; i < 6; i++)
GeneratedLen == 6
\* /^[A-Za-z0-9]{6,8}$/
MinCodeLen == 6
MaxCodeLen == 8

\* const chars = 'ABC...XYZabc...xyz0123456789'
chars ==
  << "A","B","C","D","E","F","G","H","I","J","K","L","M",
     "N","O","P","Q","R","S","T","U","V","W","X","Y","Z",
     "a","b","c","d","e","f","g","h","i","j","k","l","m",
     "n","o","p","q","r","s","t","u","v","w","x","y","z",
     "0","1","2","3","4","5","6","7","8","9" >>

\* ------------------------------------------------------------------ values

\* A nullable value is a set: empty for null/undefined, a singleton if not.
NULL == {}

Some(x) == {x}

The(s) == CHOOSE x \in s : TRUE

Range(f) == { f[i] : i \in DOMAIN f }

\* A string is a sequence of characters.
Str(s) == [type |-> "string", scheme |-> s[1], host |-> s[2], text |-> s[3]]

\* ------------------------------------------------------------------ inputs

\* Codes a caller names in a path or a body.
CodeA == << "A","A","A","A","A","A" >>
CodeB == << "B","B","B","B","B","B" >>
CodeShort == << "a","b" >>

Codes == { CodeA, CodeB }

\* body.code when the caller names a code: a string.
CustomCodes == { Some(CodeA), Some(CodeShort) }

\* body.code when the caller names none: undefined.
NoCodes == { NULL }

\* body.targetUrl: a string, given by the parts the URL parser splits it in
\* (scheme without the colon, host, and the full text).
UrlX == Str(<< "https", "example.com", "https://example.com" >>)
UrlY == Str(<< "https", "github.com", "https://github.com" >>)
UrlBad == Str(<< "", "", "not a url" >>)

Targets == { Some(UrlX), Some(UrlY), Some(UrlBad) }

\* Bodies at the edges of the validation: targetUrl missing, empty, a number,
\* a URL with a scheme and no host; code empty, too long, with another
\* character.
UrlEmpty == Str(<< "", "", "" >>)
UrlNumber == [type |-> "number", scheme |-> "", host |-> "", text |-> "42"]
UrlNoHost == Str(<< "mailto", "", "mailto:someone" >>)

CodeEmpty == << >>
CodeLong == << "a","b","c","d","e","f","g","h","i" >>
CodeDash == << "a","b","c","-","e","f" >>

EdgeBodies ==
  { [targetUrl |-> NULL, code |-> Some(CodeB)],
    [targetUrl |-> Some(UrlEmpty), code |-> Some(CodeB)],
    [targetUrl |-> Some(UrlNumber), code |-> Some(CodeB)],
    [targetUrl |-> Some(UrlNoHost), code |-> Some(CodeB)],
    [targetUrl |-> Some(UrlY), code |-> Some(CodeEmpty)],
    [targetUrl |-> Some(UrlY), code |-> Some(CodeLong)],
    [targetUrl |-> Some(UrlY), code |-> Some(CodeDash)] }

\* The values Math.floor(Math.random() * chars.length) takes in one call of
\* generateRandomCode, one per character.
DrawSeqs == { [i \in 1..GeneratedLen |-> 0], [i \in 1..GeneratedLen |-> 1] }

Req == 1..MaxReq

VARIABLES
  links,    \* the Link table: a set of rows
  nextId,   \* source of fresh ids (cuid)
  now,      \* the clock
  req,      \* the requests: inputs, position, local variables, response
  gone,     \* per code, the row removed by the last delete not followed by a create of it
  dash      \* the Dashboard: its React state and the responses it has handled

vars == << links, nextId, now, req, gone, dash >>

\* --------------------------------------------------------- pure functions

\* new URL(string) does not throw: the string has a scheme, and a special
\* scheme (http, https, ...) also needs a host.
SpecialSchemes == { "http", "https", "ftp", "ws", "wss" }

isValidUrl(string) ==
  /\ string.scheme # ""
  /\ (string.scheme \in SpecialSchemes => string.host # "")

\* [A-Za-z0-9]
AlphaNum == Range(chars)

\* /^[A-Za-z0-9]{6,8}$/.test(code)
isValidCode(code) ==
  /\ Len(code) >= MinCodeLen
  /\ Len(code) <= MaxCodeLen
  /\ \A i \in 1..Len(code) : code[i] \in AlphaNum

\* (mutant) the loop runs for i < 5
ShortRandomCode(draws) == [i \in 1..(GeneratedLen - 1) |-> chars[draws[i] + 1]]

\* code += chars.charAt(Math.floor(Math.random() * chars.length)), six times
generateRandomCode(draws) == [i \in 1..GeneratedLen |-> chars[draws[i] + 1]]

\* !targetUrl || typeof targetUrl !== 'string'
TargetMissing(target) ==
  \/ target = NULL
  \/ The(target).type # "string"
  \/ The(target).text = ""

\* if (customCode): undefined and the empty string are falsy
CustomGiven(custom) == custom # NULL /\ The(custom) # << >>

\* ------------------------------------------------------------- the store

\* prisma.link.findUnique({ where: { code } }): the row, or null
FindUnique(store, code) == { l \in store : l.code = code }

\* (mutant) the column is not declared unique
NoUniqueConstraint(store, code) == FALSE

\* code String @unique: an insert of a code a row holds fails (P2002)
UniqueViolation(store, code) == FindUnique(store, code) # NULL

\* (mutant) the id is the number of rows
RowCountId(store, counter) == Cardinality(store)

\* id String @id @default(cuid())
FreshId(store, counter) == counter

\* (mutant) updatedAt is written by a second statement, an instant later
NewLinkTouchedLater(id, code, targetUrl, t) ==
  [ id |-> id, code |-> code, targetUrl |-> targetUrl, clicks |-> 0,
    lastClicked |-> NULL, createdAt |-> t, updatedAt |-> t + 1 ]

\* prisma.link.create({ data: { code, targetUrl } }): the defaults of the schema
NewLink(id, code, targetUrl, t) ==
  [ id |-> id, code |-> code, targetUrl |-> targetUrl, clicks |-> 0,
    lastClicked |-> NULL, createdAt |-> t, updatedAt |-> t ]

\* (mutant) clicks: link.clicks + 1, computed from the handler's copy
StaleIncrement(row, link) == The(link).clicks + 1

\* clicks: { increment: 1 }: computed by the store on the row it holds
IncrementClicks(row, link) == row.clicks + 1

\* (mutant) an upsert: with no row for the code, the handler's copy is written back
PrismaUpsert(store, code, link, at, t) ==
  IF \E l \in store : l.code = code
    THEN { IF l.code = code
             THEN [l EXCEPT !.clicks = @ + 1, !.lastClicked = at, !.updatedAt = t]
             ELSE l : l \in store }
    ELSE store \cup { [l EXCEPT !.clicks = @ + 1, !.lastClicked = at, !.updatedAt = t]
                       : l \in link }

\* (mutant) createdAt is refreshed like updatedAt
PrismaUpdateTouchingCreatedAt(store, code, link, at, t) ==
  { IF l.code = code
      THEN [l EXCEPT !.clicks = @ + 1, !.lastClicked = at,
                     !.updatedAt = t, !.createdAt = t]
      ELSE l : l \in store }

\* (mutant) data: { clicks } only; lastClicked is left to a later statement
PrismaUpdateClicksOnly(store, code, link, at, t) ==
  { IF l.code = code
      THEN [l EXCEPT !.clicks = @ + 1, !.updatedAt = t]
      ELSE l : l \in store }

\* prisma.link.update({ where: { code }, data: { clicks, lastClicked } })
\* changes the row that holds the code now, and no other; with no such row
\* it changes nothing (and throws P2025, see UpdateThrows).
PrismaUpdate(store, code, link, at, t) ==
  { IF l.code = code
      THEN [l EXCEPT !.clicks = IncrementClicks(l, link),
                     !.lastClicked = at,
                     !.updatedAt = t]
      ELSE l : l \in store }

\* (mutant) an updateMany: no row to update is not an error
UpdateManyNeverThrows(store, code) == FALSE

UpdateThrows(store, code) == FindUnique(store, code) = NULL

\* (mutant) orderBy: { createdAt: 'asc' }
FindManyOldestFirst(store) ==
  { s \in [1..Cardinality(store) -> store] :
      /\ \A i \in DOMAIN s, j \in DOMAIN s : s[i] = s[j] => i = j
      /\ \A i \in DOMAIN s, j \in DOMAIN s : i < j => s[i].createdAt <= s[j].createdAt }

\* prisma.link.findMany({ orderBy: { createdAt: 'desc' } }): the results the
\* store may return, every row once, a later createdAt first (rows of equal
\* createdAt in any order)
FindMany(store) ==
  { s \in [1..Cardinality(store) -> store] :
      /\ \A i \in DOMAIN s, j \in DOMAIN s : s[i] = s[j] => i = j
      /\ \A i \in DOMAIN s, j \in DOMAIN s : i < j => s[i].createdAt >= s[j].createdAt }

\* (mutant) the where clause is lost: every row is removed
PrismaDeleteAll(store, code) == {}

\* prisma.link.delete({ where: { code } }): removes the row; throws if none
PrismaDelete(store, code) == { l \in store : l.code # code }

\* (mutant) a deleteMany: no row to delete is not an error
DeleteManyNeverThrows(store, code) == FALSE

DeleteThrows(store, code) == FindUnique(store, code) = NULL

\* ---------------------------------------------------------------- requests

Idle ==
  [ kind |-> "none", target |-> NULL, custom |-> NULL, code |-> << >>,
    pc |-> "idle", attempts |-> 0, link |-> NULL, at |-> NULL,
    status |-> 0, body |-> NULL, error |-> "", location |-> NULL,
    ops |-> << >>, conc |-> {}, pred |-> NULL, hit |-> NULL, fault |-> "" ]

Done(r) == req[r].pc = "done"

IsCreate(r) == req[r].kind = "create"

IsResolve(r) == req[r].kind = "resolve"

InFlight == { s \in Req : req[s].pc \notin { "idle", "done" } }

\* The creates so far that named no code.
AutoCreates == { s \in Req : req[s].kind = "create" /\ ~CustomGiven(req[s].custom) }

\* Requests arrive in slot order, MaxReq of them, or MaxAutoReq if one of
\* them is a create that names no code (of which there are up to MaxAuto).
CanStart(r) ==
  /\ req[r].pc = "idle"
  /\ \A s \in Req : s < r => req[s].pc # "idle"
  /\ r <= MaxAutoReq \/ AutoCreates = {}

\* A request that arrives: its inputs, and what was the case at that moment.
Arrive(kind, target, custom, code) ==
  [ Idle EXCEPT !.kind = kind, !.target = target, !.custom = custom,
                !.code = code, !.conc = InFlight,
                !.pred = IF code \in Codes THEN gone[code] ELSE NULL ]

\* NextResponse.json(..., { status }) / NextResponse.redirect(...)
Respond(q, status) == [q EXCEPT !.pc = "done", !.status = status]

\* NextResponse.json({ error }, { status })
Fail(q, status, error) == [Respond(q, status) EXCEPT !.error = error]

Call(q, op) == [q EXCEPT !.ops = Append(@, op)]

ClearGone(code) ==
  IF code \in DOMAIN gone THEN [gone EXCEPT ![code] = NULL] ELSE gone

\* ------------------------------------------------- POST /api/links (create)

\* (mutant) the result of the lookup is not tested
NeverTaken(existingLink) == FALSE

\* if (existingLink)
CodeTaken(existingLink) == existingLink # NULL

\* (mutant) a taken custom code falls back to a generated one
FallBackToGeneration(q) == [q EXCEPT !.pc = "generate"]

\* return NextResponse.json({ error: 'This short code is already taken' }, { status: 409 })
OnCustomTaken(q) == Fail(q, 409, "This short code is already taken")

\* (mutant) the format of the code is tested after the lookup
OnInvalidCodeAfterLookup(q0, q1) ==
  Fail(q1, 400, "Custom code must be 6-8 alphanumeric characters")

\* if (!isValidCode(customCode)) return ... 400, with q0 the request before
\* the lookup of the code and q1 the request after it
OnInvalidCode(q0, q1) ==
  Fail(q0, 400, "Custom code must be 6-8 alphanumeric characters")

\* The handler up to its first store call: the validation of the body and,
\* with a custom code, the lookup of that code.
POSTStart(r, target, custom) ==
  /\ CanStart(r)
  /\ CustomGiven(custom) \/ (r <= MaxAutoReq /\ Cardinality(AutoCreates) < MaxAuto)
  /\ LET q0 == Arrive("create", target, custom,
                      IF CustomGiven(custom) THEN The(custom) ELSE << >>)
         q1 == Call(q0, "findUnique")
     IN  req' = [req EXCEPT ![r] =
           IF TargetMissing(target) THEN Fail(q0, 400, "Target URL is required")
           ELSE IF ~isValidUrl(The(target)) THEN Fail(q0, 400, "Invalid URL format")
           ELSE IF CustomGiven(custom)
             THEN IF ~isValidCode(The(custom)) THEN OnInvalidCode(q0, q1)
                  ELSE IF CodeTaken(FindUnique(links, The(custom)))
                    THEN OnCustomTaken(q1)
                    ELSE [q1 EXCEPT !.pc = "create"]
             ELSE [q0 EXCEPT !.pc = "generate"]]
  /\ UNCHANGED << links, nextId, now, gone, dash >>

\* if (!existingLink) break
CandidateFree(existingLink) == existingLink = NULL

\* (mutant) while (true): the turns are not counted
POSTGenerateUncounted(r, draws) ==
  /\ req[r].pc = "generate"
  /\ LET code == generateRandomCode(draws)
         q1 == Call([req[r] EXCEPT !.code = code], "findUnique")
     IN  req' = [req EXCEPT ![r] =
           IF CandidateFree(FindUnique(links, code)) THEN [q1 EXCEPT !.pc = "create"]
           ELSE q1]
  /\ UNCHANGED << links, nextId, now, gone, dash >>

\* One turn of the while loop: a candidate and its lookup.
POSTGenerate(r, draws) ==
  /\ req[r].pc = "generate"
  /\ req[r].attempts < maxAttempts
  /\ LET code == generateRandomCode(draws)
         q1 == Call([req[r] EXCEPT !.code = code], "findUnique")
         n == req[r].attempts + 1
     IN  req' = [req EXCEPT ![r] =
           IF CandidateFree(FindUnique(links, code)) THEN [q1 EXCEPT !.pc = "create"]
           ELSE IF n >= maxAttempts
             THEN Fail([q1 EXCEPT !.attempts = n], 500,
                       "Failed to generate unique code. Please try again.")
           ELSE [q1 EXCEPT !.attempts = n]]
  /\ UNCHANGED << links, nextId, now, gone, dash >>

\* (mutant) prisma.link.upsert: a held code has its row's target replaced
POSTCreateUpsert(r) ==
  /\ req[r].pc = "create"
  /\ LET q1 == Call(req[r], "create")
         row == NewLink(FreshId(links, nextId), req[r].code,
                        The(req[r].target).text, now)
         old == FindUnique(links, req[r].code)
         new == { [l EXCEPT !.targetUrl = The(req[r].target).text, !.updatedAt = now] : l \in old }
     IN  IF UniqueViolation(links, req[r].code)
           THEN /\ links' = (links \ old) \cup new
                /\ req' = [req EXCEPT ![r] = Respond([q1 EXCEPT !.body = new], 201)]
                /\ UNCHANGED << nextId, gone >>
           ELSE /\ links' = links \cup { row }
                /\ nextId' = nextId + 1
                /\ gone' = ClearGone(req[r].code)
                /\ req' = [req EXCEPT ![r] = Respond([q1 EXCEPT !.body = Some(row)], 201)]
  /\ UNCHANGED << now, dash >>

\* (mutant) a target that a Link already has is not inserted again: the
\* Link that has it is returned
POSTCreateOncePerTarget(r) ==
  /\ req[r].pc = "create"
  /\ LET q1 == Call(req[r], "create")
         row == NewLink(FreshId(links, nextId), req[r].code,
                        The(req[r].target).text, now)
         same == { l \in links : l.targetUrl = The(req[r].target).text }
     IN  IF same # {}
           THEN /\ req' = [req EXCEPT ![r] =
                     Respond([q1 EXCEPT !.body = Some(CHOOSE l \in same : TRUE)], 201)]
                /\ UNCHANGED << links, nextId, gone >>
           ELSE IF UniqueViolation(links, req[r].code)
           THEN /\ req' = [req EXCEPT ![r] = Fail(q1, 500, "Failed to create link")]
                /\ UNCHANGED << links, nextId, gone >>
           ELSE /\ links' = links \cup { row }
                /\ nextId' = nextId + 1
                /\ gone' = ClearGone(req[r].code)
                /\ req' = [req EXCEPT ![r] = Respond([q1 EXCEPT !.body = Some(row)], 201)]
  /\ UNCHANGED << now, dash >>

\* prisma.link.create, then 201 with the row; a throw is caught: 500.
POSTCreate(r) ==
  /\ req[r].pc = "create"
  /\ LET q1 == Call(req[r], "create")
         row == NewLink(FreshId(links, nextId), req[r].code,
                        The(req[r].target).text, now)
     IN  IF UniqueViolation(links, req[r].code)
           THEN /\ req' = [req EXCEPT ![r] = Fail(q1, 500, "Failed to create link")]
                /\ UNCHANGED << links, nextId, gone >>
           ELSE /\ links' = links \cup { row }
                /\ nextId' = nextId + 1
                /\ gone' = ClearGone(req[r].code)
                /\ req' = [req EXCEPT ![r] = Respond([q1 EXCEPT !.body = Some(row)], 201)]
  /\ UNCHANGED << now, dash >>

\* ------------------------------------------------------ GET /:code (resolve)

\* (mutant) the null test is missing
LinkNeverMissing(link) == FALSE

\* if (!link)
LinkMissing(link) == link = NULL

\* NextResponse.redirect(link.targetUrl, { status: 302 })
Location(link) == { l.targetUrl : l \in link }

\* (mutant) the redirect is sent at once and the update is left to run in the
\* background
GETRedirectFirst(r, code) ==
  /\ CanStart(r)
  /\ LET q1 == Call(Arrive("resolve", NULL, NULL, code), "findUnique")
         link == FindUnique(links, code)
     IN  req' = [req EXCEPT ![r] =
           IF LinkMissing(link) THEN Fail(q1, 404, "Link not found")
           ELSE [q1 EXCEPT !.link = link, !.at = Some(now), !.pc = "update",
                           !.status = 302, !.location = Location(link)]]
  /\ UNCHANGED << links, nextId, now, gone, dash >>

\* findUnique; 404 if null; otherwise new Date() and the update is issued.
GETRedirectLookup(r, code) ==
  /\ CanStart(r)
  /\ LET q1 == Call(Arrive("resolve", NULL, NULL, code), "findUnique")
         link == FindUnique(links, code)
     IN  req' = [req EXCEPT ![r] =
           IF LinkMissing(link) THEN Fail(q1, 404, "Link not found")
           ELSE [q1 EXCEPT !.link = link, !.at = Some(now), !.pc = "update"]]
  /\ UNCHANGED << links, nextId, now, gone, dash >>

\* The update reaches the store, then the redirect; a throw is caught: 500.
GETRedirectUpdate(r) ==
  /\ req[r].pc = "update"
  /\ LET q1 == Call(req[r], "update")
     IN  /\ links' = PrismaUpdate(links, req[r].code, req[r].link, req[r].at, now)
         /\ req' = [req EXCEPT ![r] =
              IF UpdateThrows(links, req[r].code)
                THEN Fail(q1, 500, "Internal server error")
              ELSE Respond([q1 EXCEPT !.location = Location(req[r].link),
                                      !.hit = FindUnique(links, req[r].code)], 302)]
  /\ UNCHANGED << nextId, now, gone, dash >>

\* --------------------------------------------------- GET /api/links (list)

\* findMany, then 200 with the rows in the order the store returned them.
GETList(r) ==
  /\ CanStart(r)
  /\ \E found \in FindMany(links) :
       req' = [req EXCEPT ![r] =
         Respond([Call(Arrive("list", NULL, NULL, << >>), "findMany")
                    EXCEPT !.body = Some(found)], 200)]
  /\ UNCHANGED << links, nextId, now, gone, dash >>

\* ------------------------------------------- GET, DELETE /api/links/:code

\* (mutant) the get counts as a hit
GETLinkCounting(r, code) ==
  /\ CanStart(r)
  /\ LET q1 == Call(Arrive("get", NULL, NULL, code), "findUnique")
         link == FindUnique(links, code)
     IN  /\ req' = [req EXCEPT ![r] =
              IF link = NULL THEN Fail(q1, 404, "Not found")
              ELSE Respond([q1 EXCEPT !.body = link], 200)]
         /\ links' = PrismaUpdate(links, code, link, Some(now), now)
  /\ UNCHANGED << nextId, now, gone, dash >>

\* findUnique; 404 if null; otherwise 200 with the row.
GETLink(r, code) ==
  /\ CanStart(r)
  /\ LET q1 == Call(Arrive("get", NULL, NULL, code), "findUnique")
         link == FindUnique(links, code)
     IN  req' = [req EXCEPT ![r] =
           IF link = NULL THEN Fail(q1, 404, "Not found")
           ELSE Respond([q1 EXCEPT !.body = link], 200)]
  /\ UNCHANGED << links, nextId, now, gone, dash >>

\* The answer when the delete throws: the excerpt of the handler names a
\* try-catch and not its response; it is NotFound, 404 (spec.md, section 6).
OnDeleteThrows(q) == Fail(q, 404, "Link not found")

DELETE(r, code) ==
  /\ CanStart(r)
  /\ LET q1 == Call(Arrive("delete", NULL, NULL, code), "delete")
     IN  IF DeleteThrows(links, code)
           THEN /\ req' = [req EXCEPT ![r] = OnDeleteThrows(q1)]
                /\ UNCHANGED << links, gone >>
           ELSE /\ links' = PrismaDelete(links, code)
                /\ gone' = [gone EXCEPT ![code] = FindUnique(links, code)]
                /\ req' = [req EXCEPT ![r] =
                     Respond([q1 EXCEPT !.hit = FindUnique(links, code)], 200)]
  /\ UNCHANGED << nextId, now, dash >>

\* ------------------------------------------------------- storage failures

\* The awaited store call op of a request rejects for a reason of the store's
\* own (connection lost, timeout) and has no effect on the table.

\* (mutant) the failed call is swallowed and the handler goes on
RetryOnStoreFailure(q, op, error) == [Call(q, op) EXCEPT !.fault = op]

\* catch (error) { return NextResponse.json({ error }, { status: 500 }) }
OnStoreFailure(q, op, error) == Fail([Call(q, op) EXCEPT !.fault = op], 500, error)

Faults == { s \in Req : req[s].fault # "" }

\* POST: the lookup of the custom code throws
POSTStartFails(r, target, custom) ==
  /\ CanStart(r)
  /\ Cardinality(Faults) < MaxFault
  /\ ~TargetMissing(target) /\ isValidUrl(The(target))
  /\ CustomGiven(custom) /\ isValidCode(The(custom))
  /\ req' = [req EXCEPT ![r] =
       OnStoreFailure(Arrive("create", target, custom, The(custom)),
                      "findUnique", "Failed to create link")]
  /\ UNCHANGED << links, nextId, now, gone, dash >>

\* POST: the lookup of a candidate throws
POSTGenerateFails(r, draws) ==
  /\ req[r].pc = "generate"
  /\ req[r].attempts < maxAttempts
  /\ Cardinality(Faults) < MaxFault
  /\ req' = [req EXCEPT ![r] =
       OnStoreFailure([req[r] EXCEPT !.code = generateRandomCode(draws)],
                      "findUnique", "Failed to create link")]
  /\ UNCHANGED << links, nextId, now, gone, dash >>

\* POST: the insert throws
POSTCreateFails(r) ==
  /\ req[r].pc = "create"
  /\ Cardinality(Faults) < MaxFault
  /\ req' = [req EXCEPT ![r] = OnStoreFailure(req[r], "create", "Failed to create link")]
  /\ UNCHANGED << links, nextId, now, gone, dash >>

\* GET /:code: the lookup throws
GETRedirectLookupFails(r, code) ==
  /\ CanStart(r)
  /\ Cardinality(Faults) < MaxFault
  /\ req' = [req EXCEPT ![r] =
       OnStoreFailure(Arrive("resolve", NULL, NULL, code),
                      "findUnique", "Internal server error")]
  /\ UNCHANGED << links, nextId, now, gone, dash >>

\* GET /:code: the update throws
GETRedirectUpdateFails(r) ==
  /\ req[r].pc = "update"
  /\ Cardinality(Faults) < MaxFault
  /\ req' = [req EXCEPT ![r] = OnStoreFailure(req[r], "update", "Internal server error")]
  /\ UNCHANGED << links, nextId, now, gone, dash >>

\* GET /api/links: findMany throws
GETListFails(r) ==
  /\ CanStart(r)
  /\ Cardinality(Faults) < MaxFault
  /\ req' = [req EXCEPT ![r] =
       OnStoreFailure(Arrive("list", NULL, NULL, << >>),
                      "findMany", "Failed to fetch links")]
  /\ UNCHANGED << links, nextId, now, gone, dash >>

\* ------------------------------------------------------------ the Dashboard

\* useState([]), useState(true), useState('') for links, loading, error and
\* formError; alerts counts the calls of alert(); mounted: the effect that
\* loads the list has run; handled: the requests whose response the
\* component has processed.
DashInit ==
  [ links |-> << >>, loading |-> TRUE, error |-> "", formError |-> "",
    alerts |-> 0, mounted |-> FALSE, handled |-> {} ]

\* fetchLinks up to its await: setLoading(true) and GET /api/links is sent
\* as request f; d is the Dashboard before the call.
fetchLinks(f, d) ==
  /\ CanStart(f)
  /\ req' = [req EXCEPT ![f] = [Arrive("list", NULL, NULL, << >>) EXCEPT !.pc = "sent"]]
  /\ dash' = [d EXCEPT !.loading = TRUE]

\* useEffect(() => { fetchLinks() }, [])
DashMount(f) ==
  /\ ~dash.mounted
  /\ fetchLinks(f, [dash EXCEPT !.mounted = TRUE])
  /\ UNCHANGED << links, nextId, now, gone >>

\* The list handler on a request the Dashboard has sent: findMany, then 200
\* with the rows in the order the store returned them.
GETListSent(r) ==
  /\ req[r].pc = "sent"
  /\ \E found \in FindMany(links) :
       req' = [req EXCEPT ![r] =
         Respond([Call(req[r], "findMany") EXCEPT !.body = Some(found)], 200)]
  /\ UNCHANGED << links, nextId, now, gone, dash >>

\* r has answered and the Dashboard has not yet processed the response
Unhandled(r) == Done(r) /\ r \notin dash.handled

\* fetchLinks after its await: setLinks(data), setError('') on an ok
\* response, setError(...) otherwise; finally setLoading(false).
DashFetchDone(r) ==
  /\ req[r].kind = "list" /\ Unhandled(r)
  /\ dash' = [ (IF req[r].status = 200
                 THEN [dash EXCEPT !.links = The(req[r].body), !.error = ""]
                 ELSE [dash EXCEPT !.error = "Failed to load links. Please try again."])
               EXCEPT !.loading = FALSE, !.handled = @ \cup { r } ]
  /\ UNCHANGED << links, nextId, now, req, gone >>

\* handleSubmit after its await: an ok response calls fetchLinks, another
\* one sets the form's error.
DashSubmitDone(r, f) ==
  /\ req[r].kind = "create" /\ Unhandled(r)
  /\ IF req[r].status = 201
       THEN fetchLinks(f, [dash EXCEPT !.handled = @ \cup { r }])
       ELSE /\ dash' = [dash EXCEPT !.formError = req[r].error, !.handled = @ \cup { r }]
            /\ req' = req
  /\ UNCHANGED << links, nextId, now, gone >>

\* handleDelete after its await: an ok response calls fetchLinks, any other
\* one throws and the catch calls alert().
DashDeleteDone(r, f) ==
  /\ req[r].kind = "delete" /\ Unhandled(r)
  /\ IF req[r].status = 200
       THEN fetchLinks(f, [dash EXCEPT !.handled = @ \cup { r }])
       ELSE /\ dash' = [dash EXCEPT !.alerts = @ + 1, !.handled = @ \cup { r }]
            /\ req' = req
  /\ UNCHANGED << links, nextId, now, gone >>

\* ------------------------------------------------------------ specification

\* The table when the server starts: empty, or holding a link that was made
\* and resolved once earlier.
SeedLink ==
  [NewLink(0, CodeA, UrlX.text, 0) EXCEPT !.clicks = 1, !.lastClicked = Some(0)]

SeedStores == { {}, { SeedLink } }

Init ==
  /\ links \in SeedStores
  /\ nextId = 1
  /\ now = 0
  /\ req = [r \in Req |-> Idle]
  /\ gone = [c \in Codes |-> NULL]
  /\ dash = DashInit

\* The requests that name the code they work on.
Next ==
  \/ \E r \in Req, target \in Targets, custom \in CustomCodes : POSTStart(r, target, custom)
  \/ \E r \in Req : POSTCreate(r)
  \/ \E r \in Req, code \in Codes : GETRedirectLookup(r, code)
  \/ \E r \in Req : GETRedirectUpdate(r)
  \/ \E r \in Req, code \in Codes : GETLink(r, code)
  \/ \E r \in Req, code \in Codes : DELETE(r, code)

\* Behaviours within one instant of the clock: no handler tests a timestamp,
\* so the order of the store calls and the responses do not depend on it.
Spec == Init /\ [][Next]_vars

\* The same, and the creates that name no code.
NextAuto ==
  \/ Next
  \/ \E r \in Req, target \in Targets, custom \in NoCodes : POSTStart(r, target, custom)
  \/ \E r \in Req, draws \in DrawSeqs : POSTGenerate(r, draws)

SpecAuto == Init /\ [][NextAuto]_vars

\* MaxEdge creates with a body of EdgeBodies, in the first MaxEdgeReq slots.
EdgeCreates ==
  { s \in Req : IsCreate(s) /\ [targetUrl |-> req[s].target, code |-> req[s].custom] \in EdgeBodies }

POSTEdge(r, body) ==
  /\ r <= MaxEdgeReq
  /\ Cardinality(EdgeCreates) < MaxEdge
  /\ POSTStart(r, body.targetUrl, body.code)

\* The requests of Next, and the creates with a body of EdgeBodies.
NextBodies ==
  \/ Next
  \/ \E r \in Req, body \in EdgeBodies : POSTEdge(r, body)
  \/ \E r \in Req, draws \in DrawSeqs : POSTGenerate(r, draws)

SpecBodies == Init /\ [][NextBodies]_vars

\* Time passes between any two steps.
Tick ==
  /\ now < MaxTime
  /\ now' = now + 1
  /\ UNCHANGED << links, nextId, req, gone, dash >>

\* The requests of Next, the creates of a second code and the lists, in the
\* first MaxClockReq slots, with the clock running.
NextClock ==
  \/ Next /\ \A r \in Req : r > MaxClockReq => req'[r] = req[r]
  \/ \E r \in 1..MaxClockReq, target \in Targets : POSTStart(r, target, Some(CodeB))
  \/ \E r \in 1..MaxClockReq : GETList(r)
  \/ Tick

SpecClock == Init /\ [][NextClock]_vars

\* The requests on one code, in all the slots, with the clock running.
HotCode == CodeA

HotTargets == { Some(UrlX), Some(UrlY) }

NextHot ==
  \/ \E r \in Req, target \in HotTargets : POSTStart(r, target, Some(HotCode))
  \/ \E r \in Req : POSTCreate(r)
  \/ \E r \in Req : GETRedirectLookup(r, HotCode)
  \/ \E r \in Req : GETRedirectUpdate(r)
  \/ \E r \in Req : GETLink(r, HotCode)
  \/ \E r \in Req : DELETE(r, HotCode)
  \/ Tick

SpecHot == Init /\ [][NextHot]_vars

\* The creates and the resolves, a delete of the one code, and up to MaxFault
\* store calls that fail.
NextFail ==
  \/ \E r \in Req, custom \in { NULL, Some(HotCode) } : POSTStart(r, Some(UrlX), custom)
  \/ \E r \in Req, draws \in DrawSeqs : POSTGenerate(r, draws)
  \/ \E r \in Req : POSTCreate(r)
  \/ \E r \in Req : GETRedirectLookup(r, HotCode)
  \/ \E r \in Req : GETRedirectUpdate(r)
  \/ \E r \in Req : DELETE(r, HotCode)
  \/ \E r \in Req : POSTStartFails(r, Some(UrlX), Some(HotCode))
  \/ \E r \in Req, draws \in DrawSeqs : POSTGenerateFails(r, draws)
  \/ \E r \in Req : POSTCreateFails(r)
  \/ \E r \in Req : GETRedirectLookupFails(r, HotCode)
  \/ \E r \in Req : GETRedirectUpdateFails(r)

SpecFail == Init /\ [][NextFail]_vars

\* The store call that request r awaits returns or throws.
Continue(r) ==
  \/ \E draws \in DrawSeqs : POSTGenerate(r, draws)
  \/ \E draws \in DrawSeqs : POSTGenerateFails(r, draws)
  \/ POSTCreate(r)
  \/ POSTCreateFails(r)
  \/ GETRedirectUpdate(r)
  \/ GETRedirectUpdateFails(r)

\* The requests of NextFail and the lists, in the first MaxAutoReq slots.
NextLive ==
  /\ \/ NextFail
     \/ \E r \in Req : GETList(r)
     \/ \E r \in Req : GETListFails(r)
  /\ \A r \in Req : r > MaxAutoReq => req'[r] = req[r]

\* While a handler awaits a store call, some awaited call comes back: its
\* promise resolves or rejects, and the event loop runs the continuation.
SpecLive == Init /\ [][NextLive]_vars /\ WF_vars(\E r \in Req : Continue(r))

\* The body of create s, which named no code and answered 201, is sent once
\* more as request r: the handler up to its first store call.
POSTRetry(r, s) ==
  /\ CanStart(r)
  /\ IsCreate(s) /\ ~CustomGiven(req[s].custom) /\ req[s].status = 201
  /\ Cardinality(AutoCreates) < MaxAuto + MaxRetry
  /\ req' = [req EXCEPT ![r] =
       [Arrive("create", req[s].target, req[s].custom, << >>) EXCEPT !.pc = "generate"]]
  /\ UNCHANGED << links, nextId, now, gone, dash >>

\* The creates without a code and their repetitions, the gets and the
\* lists, and the resolves and the deletes of one code.
NextRetry ==
  \/ \E r \in Req : POSTStart(r, Some(UrlX), NULL)
  \/ \E r \in Req, draws \in DrawSeqs : POSTGenerate(r, draws)
  \/ \E r \in Req : POSTCreate(r)
  \/ \E r \in Req, s \in Req : POSTRetry(r, s)
  \/ \E r \in Req, code \in { CodeA, CodeB } : GETLink(r, code)
  \/ \E r \in Req : GETList(r)
  \/ \E r \in Req : GETRedirectLookup(r, HotCode)
  \/ \E r \in Req : GETRedirectUpdate(r)
  \/ \E r \in Req : DELETE(r, HotCode)

SpecRetry == Init /\ [][NextRetry]_vars

\* The Dashboard and the requests it sends: the creates of one code, the
\* deletes of another, the lists.
NextDash ==
  \/ \E f \in Req : DashMount(f)
  \/ \E r \in Req : POSTStart(r, Some(UrlX), Some(CodeB))
  \/ \E r \in Req : POSTCreate(r)
  \/ \E r \in Req : DELETE(r, HotCode)
  \/ \E r \in Req : GETListSent(r)
  \/ \E r \in Req : DashFetchDone(r)
  \/ \E r \in Req, f \in Req : DashSubmitDone(r, f)
  \/ \E r \in Req, f \in Req : DashDeleteDone(r, f)

SpecDash == Init /\ [][NextDash]_vars

\* ------------------------------------------------------ reading the state

\* r is a create with a custom code that passed the validation (or a
\* create without a code whose candidate is the code, once it has one)
CreatesCode(r, c) == IsCreate(r) /\ req[r].code = c /\ req[r].ops # << >>

CustomCreate(r, c) == CreatesCode(r, c) /\ req[r].custom = Some(c)

\* s had arrived and had not answered when r arrived
Overlap(r, s) == s \in req[r].conc \/ r \in req[s].conc

\* s had answered when r arrived
Before(s, r) == s < r /\ s \notin req[r].conc

\* a delete of the code has arrived
DeleteSeen(c) == \E d \in Req : req[d].kind = "delete" /\ req[d].code = c

\* ------------------------------------------------------------------ claims

\* C1: in every reachable state no two live Links have the same code.
C1_CodeUnique == \A l1 \in links, l2 \in links : l1.code = l2.code => l1 = l2

\* C1 witness: two creates of the same code raced to the insert and one row holds the code.
C1_Witness ==
  \E r \in Req, s \in Req :
    /\ r # s /\ Done(r) /\ Done(s)
    /\ IsCreate(r) /\ IsCreate(s) /\ req[r].code = req[s].code
    /\ s \in req[r].conc
    /\ "create" \in Range(req[r].ops) /\ "create" \in Range(req[s].ops)
    /\ Cardinality(FindUnique(links, req[r].code)) = 1

\* C2 (as claimed): of two creates with the same valid custom code that run
\* concurrently on a free code (no delete of it), one answers 201 and the
\* other 409, and one Link holds the code afterwards.
C2_RaceOneWinnerOneConflict ==
  \A r \in Req, s \in Req, c \in Codes :
    ( /\ r # s /\ Done(r) /\ Done(s)
      /\ CustomCreate(r, c) /\ CustomCreate(s, c)
      /\ s \in req[r].conc
      /\ ~DeleteSeen(c) )
    => /\ { req[r].status, req[s].status } = { 201, 409 }
       /\ Cardinality(FindUnique(links, c)) = 1

\* C3: when the resolves of a code whose Link was never deleted have all
\* answered, each of them that found the Link answered 302 and the Link's
\* clicks is what it was before them plus their number.
C3_Resolves(c) == { r \in Req : IsResolve(r) /\ req[r].code = c /\ req[r].link # NULL }

C3_ClicksBefore(l) == IF l.id = SeedLink.id THEN SeedLink.clicks ELSE 0

C3_NoLostClick ==
  \A l \in links :
    ( /\ ~DeleteSeen(l.code)
      /\ \A r \in Req : IsResolve(r) /\ req[r].code = l.code => Done(r) )
    => /\ \A r \in C3_Resolves(l.code) : req[r].status = 302
       /\ l.clicks = C3_ClicksBefore(l) + Cardinality(C3_Resolves(l.code))

\* C3 witness: two resolves of a Link overlapped, both answered, clicks rose by 2.
C3_Witness ==
  \E l \in links, r \in Req, s \in Req :
    /\ r # s /\ s \in req[r].conc
    /\ r \in C3_Resolves(l.code) /\ s \in C3_Resolves(l.code)
    /\ Done(r) /\ Done(s)
    /\ ~DeleteSeen(l.code)
    /\ l.clicks = C3_ClicksBefore(l) + 2

\* C4 (as claimed): a resolve that was in flight when a successful delete of
\* its code arrived ends with 404, or with a redirect to the targetUrl of the
\* Link it found and its hit applied to that Link; never otherwise.
C4_ResolveDuringDelete ==
  \A r \in Req, d \in Req :
    ( /\ IsResolve(r) /\ Done(r)
      /\ req[d].kind = "delete" /\ req[d].code = req[r].code /\ req[d].status = 200
      /\ r \in req[d].conc )
    => \/ req[r].status = 404
       \/ /\ req[r].status = 302
          /\ req[r].location = Location(req[r].link)
          /\ { h.id : h \in req[r].hit } = { l.id : l \in req[r].link }

\* C5 (as claimed): a resolve that answers with a redirect redirects to the
\* targetUrl of the row whose clicks it incremented.
C5_RedirectOfHitRow ==
  \A r \in Req :
    IsResolve(r) /\ Done(r) /\ req[r].status = 302
    => req[r].location = Location(req[r].hit)

\* C6: a resolve or a get of a code that arrives after a successful delete of
\* the code, and before any create has inserted the code again, answers 404.
C6_NotFoundAfterDelete ==
  \A r \in Req :
    req[r].kind \in { "resolve", "get" } /\ req[r].pc # "idle" /\ req[r].pred # NULL
    => Done(r) /\ req[r].status = 404

\* C6 witness: after a delete, a resolve and a get of the code answered 404.
C6_Witness ==
  \E r \in Req, g \in Req :
    /\ IsResolve(r) /\ Done(r) /\ req[r].pred # NULL /\ req[r].status = 404
    /\ req[g].kind = "get" /\ Done(g) /\ req[g].pred # NULL /\ req[g].status = 404

\* C7: from a successful delete of a code until a create inserts the code, no
\* live Link has the code, whatever pending resolves do.
C7_NoZombie == \A c \in Codes : gone[c] # NULL => FindUnique(links, c) = NULL

\* C7 witness: a resolve found the Link, the Link was deleted, and the
\* resolve's update then ran.
C7_Witness ==
  \E r \in Req :
    /\ IsResolve(r) /\ Done(r) /\ req[r].link # NULL
    /\ "update" \in Range(req[r].ops)
    /\ gone[req[r].code] = { l \in req[r].link : TRUE }
    /\ gone[req[r].code] # NULL

\* C8: a create with a valid target and a custom code that arrives after a
\* successful delete of the code (no create of the code since, none
\* overlapping it) answers 201 with a fresh row: an id other than the deleted
\* row's, clicks 0, lastClicked null, its own targetUrl.
C8_Case(r) ==
  /\ IsCreate(r) /\ Done(r)
  /\ req[r].pred # NULL
  /\ ~TargetMissing(req[r].target)
  /\ isValidUrl(The(req[r].target))
  /\ \A s \in Req : s # r /\ CreatesCode(s, req[r].code) => ~Overlap(r, s)

C8_ReuseAfterDelete ==
  \A r \in Req :
    C8_Case(r)
    => /\ req[r].status = 201
       /\ \A b \in req[r].body :
            /\ b.code = req[r].code
            /\ b.clicks = 0
            /\ b.lastClicked = NULL
            /\ b.targetUrl = The(req[r].target).text
            /\ \A p \in req[r].pred : b.id # p.id
       /\ req[r].body # NULL

\* C8 witness: the deleted Link had been clicked, and the code was created again.
C8_Witness ==
  \E r \in Req :
    /\ C8_Case(r)
    /\ req[r].status = 201
    /\ \E p \in req[r].pred : p.clicks > 0

\* C9: of two creates with the same valid custom code, the second arriving
\* after the first has answered, on a code free before the first (no delete
\* of the code, no other create of it), the first answers 201, the second 409,
\* and the one Link of the code has the first one's targetUrl.
C9_Case(r, s, c) ==
  /\ Done(r) /\ Done(s)
  /\ CustomCreate(r, c) /\ CustomCreate(s, c)
  /\ Before(r, s)
  /\ req[r].status # 409
  /\ ~DeleteSeen(c)
  /\ \A o \in Req : o \notin { r, s } => ~CreatesCode(o, c)

C9_SecondCreateConflicts ==
  \A r \in Req, s \in Req, c \in Codes :
    C9_Case(r, s, c)
    => /\ req[r].status = 201
       /\ req[s].status = 409
       /\ Cardinality(FindUnique(links, c)) = 1
       /\ \A l \in FindUnique(links, c) :
            /\ l.targetUrl = The(req[r].target).text
            /\ \A b \in req[r].body : b.id = l.id

\* C9 witness: the two creates named different targets.
C9_Witness ==
  \E r \in Req, s \in Req, c \in Codes :
    /\ C9_Case(r, s, c)
    /\ req[r].target # req[s].target

\* C10: a create with a valid target and a valid custom code that a live Link
\* holds answers 409 in the step of its one lookup: no candidate is
\* generated, nothing is inserted, and the table is unchanged.
C10_Arrives(r, c) ==
  /\ req[r].pc = "idle"
  /\ req'[r].kind = "create"
  /\ req'[r].custom = Some(c)
  /\ isValidCode(c)
  /\ ~TargetMissing(req'[r].target)
  /\ isValidUrl(The(req'[r].target))
  /\ FindUnique(links, c) # NULL

C10_ConflictImmediate ==
  [][ \A r \in Req, c \in Codes :
        C10_Arrives(r, c)
        => /\ req'[r].pc = "done"
           /\ req'[r].status = 409
           /\ req'[r].ops = << "findUnique" >>
           /\ req'[r].code = c
           /\ req'[r].attempts = 0
           /\ links' = links
           /\ nextId' = nextId ]_vars

\* C10 witness: a create answered 409.
C10_Witness ==
  \E r \in Req :
    /\ IsCreate(r) /\ Done(r) /\ req[r].status = 409
    /\ req[r].ops = << "findUnique" >>
    /\ FindUnique(links, req[r].code) # NULL

\* the creates that named no code and passed the validation of the target
AutoCreate(r) ==
  /\ IsCreate(r) /\ ~CustomGiven(req[r].custom)
  /\ req[r].pc # "idle" /\ req[r].status # 400

\* the number of store calls op that r has made
Count(r, op) == Cardinality({ i \in DOMAIN req[r].ops : req[r].ops[i] = op })

ExhaustedCodeSpace(r) ==
  /\ Done(r) /\ req[r].status = 500
  /\ req[r].error = "Failed to generate unique code. Please try again."

\* C11 (as claimed): a create without a code looks up at most 10 candidates
\* and stops at the first free one; it fails with ExhaustedCodeSpace exactly
\* when 10 candidates collided, persisting nothing; it never fails after
\* fewer than 10 collisions.
C11_BoundedGeneration ==
  \A r \in Req :
    AutoCreate(r)
    => /\ Count(r, "findUnique") <= maxAttempts
       /\ req[r].attempts <= maxAttempts
       /\ Count(r, "findUnique") =
            req[r].attempts + (IF req[r].pc = "create" \/ Count(r, "create") > 0 THEN 1 ELSE 0)
       /\ ExhaustedCodeSpace(r) <=> req[r].attempts = maxAttempts
       /\ ExhaustedCodeSpace(r) => Count(r, "create") = 0 /\ req[r].body = NULL
       /\ Done(r) /\ req[r].status # 201 => req[r].attempts = maxAttempts

\* C12: a create that named no code and answers 201 returns a Link whose code
\* is 6 characters of [A-Za-z0-9] (so it matches [A-Za-z0-9]{6,8}); at the
\* step that persists it no other live Link has that code, and afterwards the
\* returned Link is the one row with the code.
C12_Persists(r) ==
  /\ IsCreate(r) /\ req[r].custom = NULL
  /\ req[r].pc = "create"
  /\ req'[r].status = 201

C12_GeneratedCodeFresh ==
  [][ \A r \in Req :
        C12_Persists(r)
        => /\ req'[r].body # NULL
           /\ \A b \in req'[r].body :
                /\ Len(b.code) = GeneratedLen
                /\ \A i \in 1..Len(b.code) : b.code[i] \in AlphaNum
                /\ isValidCode(b.code)
                /\ \A l \in links : l.code # b.code
                /\ b \in links'
                /\ \A l \in links' : l.code = b.code => l = b ]_vars

\* C12 witness: a create without a code got its Link while a concurrent
\* create of the same code lost the insert.
C12_Witness ==
  \E r \in Req, s \in Req :
    /\ r # s /\ Overlap(r, s)
    /\ IsCreate(r) /\ req[r].custom = NULL /\ Done(r) /\ req[r].status = 201
    /\ IsCreate(s) /\ req[s].code = req[r].code /\ req[s].status = 500
    /\ Count(s, "create") = 1

\* the body of r supplies a code that does not match ^[A-Za-z0-9]{6,8}$
BadCodeSupplied(r) ==
  /\ IsCreate(r) /\ req[r].pc # "idle"
  /\ req[r].custom # NULL /\ ~isValidCode(The(req[r].custom))

ValidTarget(r) == ~TargetMissing(req[r].target) /\ isValidUrl(The(req[r].target))

InvalidCode(r) ==
  /\ Done(r) /\ req[r].status = 400
  /\ req[r].error = "Custom code must be 6-8 alphanumeric characters"

InvalidTarget(r) ==
  /\ Done(r) /\ req[r].status = 400
  /\ req[r].error \in { "Target URL is required", "Invalid URL format" }

\* C13 (as claimed): a create whose body supplies a code that does not match
\* ^[A-Za-z0-9]{6,8}$ (too short, too long, empty, another character) answers
\* 400, InvalidCode when its target is valid, and persists no Link.
C13_BadCodeRejected ==
  \A r \in Req :
    BadCodeSupplied(r)
    => /\ Done(r) => req[r].status = 400
       /\ Done(r) /\ ValidTarget(r) => InvalidCode(r)
       /\ Count(r, "create") = 0
       /\ req[r].body = NULL

\* C14: a create answers 400 only in its first step, as InvalidTarget or
\* InvalidCode, having made no store call (no lookup, no insert), and that
\* step leaves the table unchanged.
C14_Rejects(r) == IsCreate(r)' /\ req[r].status # 400 /\ req'[r].status = 400

C14_RejectedBeforeStorage ==
  [][ \A r \in Req :
        C14_Rejects(r)
        => /\ req[r].pc = "idle"
           /\ InvalidTarget(r)' \/ InvalidCode(r)'
           /\ req'[r].ops = << >>
           /\ links' = links
           /\ nextId' = nextId ]_vars

\* C14 witness: on a table that holds a Link, one create was rejected for its
\* target and one for its code.
C14_Witness ==
  \E r \in Req, s \in Req :
    /\ IsCreate(r) /\ InvalidTarget(r) /\ req[r].ops = << >>
    /\ IsCreate(s) /\ InvalidCode(s) /\ req[s].ops = << >>
    /\ links # {}

\* the targetUrl of r is missing, empty, not a string, or a string without a
\* scheme or without a host
BadTargetSupplied(r) ==
  /\ IsCreate(r) /\ req[r].pc # "idle"
  /\ \/ req[r].target = NULL
     \/ The(req[r].target).type # "string"
     \/ The(req[r].target).text = ""
     \/ The(req[r].target).scheme = ""
     \/ The(req[r].target).host = ""

\* C15 (as claimed): a create whose targetUrl is missing, empty, not a string
\* or not an absolute URL with a scheme and a host answers 400 InvalidTarget
\* and persists no Link.
C15_BadTargetRejected ==
  \A r \in Req :
    BadTargetSupplied(r)
    => /\ Done(r) => InvalidTarget(r)
       /\ Count(r, "create") = 0
       /\ req[r].body = NULL

\* C16: a step in which a create answers 201 adds exactly one Link to the
\* table and changes no other; the new Link has clicks 0, lastClicked null,
\* createdAt = updatedAt, the targetUrl and the code of the request, and is
\* the record of the response.  No other step adds a Link.
C16_Succeeds(r) == IsCreate(r)' /\ req[r].status # 201 /\ req'[r].status = 201

C16_CreatePersistsOne ==
  [][ /\ \A r \in Req :
           C16_Succeeds(r)
           => /\ req'[r].body # NULL
              /\ \A b \in req'[r].body :
                   /\ b \notin links
                   /\ links' = links \cup { b }
                   /\ Cardinality(links') = Cardinality(links) + 1
                   /\ b.clicks = 0
                   /\ b.lastClicked = NULL
                   /\ b.createdAt = b.updatedAt
                   /\ b.createdAt = now
                   /\ b.targetUrl = The(req[r].target).text
                   /\ b.code = req[r].code
                   /\ CustomGiven(req[r].custom) => b.code = The(req[r].custom)
      /\ (\E l \in links' : \A k \in links : k.id # l.id)
           => \E r \in Req : C16_Succeeds(r) ]_vars

\* C16 witness: a create answered 201 after the clock had advanced, on a
\* table that held another Link.
C16_Witness ==
  \E r \in Req :
    /\ IsCreate(r) /\ Done(r) /\ req[r].status = 201
    /\ \E b \in req[r].body : b.createdAt > 0 /\ b \in links
    /\ Cardinality(links) >= 2

\* the rows deleted so far, as they were when removed
DeletedRows == UNION { req[d].hit : d \in { x \in Req : req[x].kind = "delete" } }

\* clicks recorded on a set of rows since the server started
RECURSIVE ClicksRecorded(_)
ClicksRecorded(rows) ==
  IF rows = {} THEN 0
  ELSE LET l == CHOOSE x \in rows : TRUE
       IN  (l.clicks - C3_ClicksBefore(l)) + ClicksRecorded(rows \ { l })

Redirected == { r \in Req : IsResolve(r) /\ Done(r) /\ req[r].status = 302 }

AllCompleted == \A r \in Req : req[r].pc \in { "idle", "done" }

C17_ClicksState ==
  /\ \A l \in links : l.clicks >= 0
  /\ AllCompleted => ClicksRecorded(links \cup DeletedRows) = Cardinality(Redirected)

C17_ClicksStep ==
  \A l \in links, k \in links' :
    k.id = l.id => k.clicks = l.clicks \/ k.clicks = l.clicks + 1

\* C17: clicks of a Link is never negative; a step leaves the clicks of a live
\* Link as it is or raises it by exactly 1; and when all requests have
\* completed, the clicks recorded on all Links, live and deleted, add up to
\* the number of resolves that answered with a redirect.
C17_ClicksCountRedirects == []C17_ClicksState /\ [][C17_ClicksStep]_vars

\* C17 witness: all requests completed; a Link was clicked and deleted, a
\* resolve of it failed or found nothing, and a redirect was answered.
C17_Witness ==
  /\ AllCompleted
  /\ \E l \in DeletedRows : l.clicks > C3_ClicksBefore(l)
  /\ \E r \in Req : IsResolve(r) /\ Done(r) /\ req[r].status # 302
  /\ Redirected # {}

\* C18: a resolve that arrives for a code no live Link holds answers 404 in
\* the step of its lookup, makes no other store call, and leaves the table as
\* it is: no Link added, none removed, no field changed.
C18_ArrivesMissing(r) ==
  /\ req[r].pc = "idle"
  /\ IsResolve(r)'
  /\ FindUnique(links, req'[r].code) = NULL

C18_MissingResolveChangesNothing ==
  [][ \A r \in Req :
        C18_ArrivesMissing(r)
        => /\ req'[r].pc = "done"
           /\ req'[r].status = 404
           /\ req'[r].ops = << "findUnique" >>
           /\ req'[r].location = NULL
           /\ links' = links
           /\ nextId' = nextId ]_vars

\* C18 witness: a resolve of a code that was never created answered 404 while
\* the table held a Link of another code.
C18_Witness ==
  \E r \in Req :
    /\ IsResolve(r) /\ Done(r) /\ req[r].status = 404
    /\ req[r].pred = NULL /\ ~DeleteSeen(req[r].code)
    /\ \E l \in links : l.code # req[r].code

\* C19: in every reachable state a live Link has lastClicked null if and only
\* if its clicks is 0.
C19_ClickedIffCounted ==
  \A l \in links : (l.lastClicked = NULL) <=> (l.clicks = 0)

\* C19 witness: a resolve found a Link, the Link was deleted and its code
\* created again, and the resolve's update then counted on the new Link.
C19_Witness ==
  \E r \in Req, l \in links :
    /\ IsResolve(r) /\ Done(r) /\ req[r].status = 302
    /\ l.code = req[r].code
    /\ \A k \in req[r].link : k.id # l.id
    /\ l.clicks = 1 /\ l.lastClicked # NULL

IsDelete(r) == req[r].kind = "delete"

C20_State ==
  /\ \A d \in Req :
       IsDelete(d)
       => /\ Done(d) /\ req[d].status \in { 200, 404 }
          /\ req[d].status = 200 <=> req[d].hit # NULL
          /\ req[d].pred # NULL => req[d].status = 404
  /\ \A d \in Req, e \in Req :
       IsDelete(d) /\ IsDelete(e) /\ d # e
       => \A k \in req[d].hit, l \in req[e].hit : k.id # l.id

C20_Step ==
  \A d \in Req :
    req[d].pc = "idle" /\ IsDelete(d)'
    => LET row == FindUnique(links, req'[d].code)
       IN  /\ row # NULL => req'[d].status = 200 /\ req'[d].hit = row /\ links' = links \ row
           /\ row = NULL => req'[d].status = 404 /\ links' = links

IsList(r) == req[r].kind = "list"

\* C21: a list answers 200 with every Link live at the step of its read, each
\* once and no other, a later createdAt before an earlier one, and leaves the
\* table unchanged.
C21_Lists(r) == req[r].pc = "idle" /\ IsList(r)'

C21_ListLiveNewestFirst ==
  [][ \A r \in Req :
        C21_Lists(r)
        => /\ req'[r].status = 200 /\ req'[r].pc = "done"
           /\ req'[r].body # NULL
           /\ \A found \in req'[r].body :
                /\ Range(found) = links
                /\ Len(found) = Cardinality(links)
                /\ \A i \in 1..Len(found), j \in 1..Len(found) :
                     i < j => found[i].createdAt >= found[j].createdAt
           /\ links' = links ]_vars

\* C21 witness: a list returned two Links, the first created later than the
\* second.
C21_Witness ==
  \E r \in Req :
    /\ IsList(r) /\ Done(r)
    /\ \E found \in req[r].body :
         Len(found) = 2 /\ found[1].createdAt > found[2].createdAt

IsGet(r) == req[r].kind = "get"

\* C22: a get answers 200 with the stored record of the live Link of its
\* code, or 404 when no live Link has the code; in both cases its step leaves
\* the table, every field of every Link, unchanged.
C22_Gets(r) == req[r].pc = "idle" /\ IsGet(r)'

C22_GetIsPureRead ==
  [][ \A r \in Req :
        C22_Gets(r)
        => LET row == FindUnique(links, req'[r].code)
           IN  /\ req'[r].pc = "done"
               /\ row # NULL => req'[r].status = 200 /\ req'[r].body = row
               /\ row = NULL => req'[r].status = 404 /\ req'[r].body = NULL
               /\ links' = links
               /\ nextId' = nextId ]_vars

\* C22 witness: a get returned a Link that had been clicked, and another get
\* found none.
C22_Witness ==
  \E r \in Req, s \in Req :
    /\ IsGet(r) /\ req[r].status = 200
    /\ \E b \in req[r].body : b.clicks > 0 /\ b \in links
    /\ IsGet(s) /\ req[s].status = 404

\* the Links of the codes other than c
Others(store, c) == { l \in store : l.code # c }

\* what a step of r on code c answers and does to the Link of c, given only
\* the Link of c (or none) as it was before the step
C23_OutcomeOf(r, c) ==
  LET own == FindUnique(links, c)
      q == req[r]
      p == req'[r]
  IN  /\ FindUnique(links', c) \in SUBSET links'
      /\ p.kind = "resolve" /\ q.pc = "idle" => (p.status = 404 <=> own = NULL)
      /\ p.kind = "resolve" /\ q.pc = "update"
           => /\ p.status = 302 <=> own # NULL
              /\ p.status = 500 <=> own = NULL
              /\ FindUnique(links', c) = PrismaUpdate(own, c, q.link, q.at, now)
      /\ p.kind = "delete"
           => /\ p.status = 200 <=> own # NULL
              /\ p.status = 404 <=> own = NULL
              /\ FindUnique(links', c) = NULL
      /\ p.kind = "get" => (p.status = 200 <=> own # NULL) /\ p.body = own
      /\ p.kind = "create" /\ q.pc = "idle" /\ p.ops # << >>
           => (p.status = 409 <=> own # NULL) /\ (p.pc = "create" <=> own = NULL)
      /\ p.kind = "create" /\ q.pc = "generate"
           => (p.pc = "create" <=> own = NULL)
      /\ p.kind = "create" /\ q.pc = "create"
           => /\ p.status = 201 <=> own = NULL
              /\ p.status = 500 <=> own # NULL
              /\ own # NULL => FindUnique(links', c) = own
              /\ own = NULL => FindUnique(links', c) = p.body

\* C23: a step of a create, resolve, get or delete on code c leaves every
\* field of every Link of another code unchanged, adds and removes no Link of
\* another code, and its answer and its effect on the Link of c are decided
\* by the Link of c alone, whatever Links of other codes exist and whatever
\* requests on other codes are in flight.
C23_DifferentCodesIndependent ==
  [][ \A r \in Req :
        req'[r] # req[r]
        => LET c == req'[r].code
           IN  /\ Others(links', c) = Others(links, c)
               /\ C23_OutcomeOf(r, c)
               /\ \A s \in Req : s # r => req'[s] = req[s] ]_vars

\* C23 witness: a Link was created while a resolve of a Link of another code
\* was in flight; the resolve redirected, and both Links are live, the one
\* counted and the other not.
C23_Witness ==
  \E c \in Req, r \in Req, l \in links, k \in links :
    /\ IsCreate(c) /\ req[c].status = 201
    /\ IsResolve(r) /\ req[r].status = 302 /\ req[r].code # req[c].code
    /\ Overlap(r, c)
    /\ l.code = req[r].code /\ l.clicks > 0
    /\ k.code = req[c].code /\ k.clicks = 0

\* r takes the step and it is the update of a resolve of code c
C24_ResolveUpdates(r, c) ==
  /\ IsResolve(r) /\ req[r].pc = "update" /\ req[r].code = c
  /\ req'[r] # req[r]

\* C24: a step keeps id, code, targetUrl and createdAt of every Link that is
\* live before and after it; a step that changes a live Link is the update of
\* a resolve of its code, and it changes clicks, lastClicked and updatedAt
\* only.
C24_OnlyResolveModifies ==
  [][ \A l \in links, k \in links' :
        k.id = l.id
        => /\ k.code = l.code
           /\ k.targetUrl = l.targetUrl
           /\ k.createdAt = l.createdAt
           /\ k # l => \E r \in Req : C24_ResolveUpdates(r, l.code) ]_vars

\* C24 witness: a Link was resolved at an instant after its creation.
C24_Witness ==
  \E l \in links :
    /\ l.clicks > C3_ClicksBefore(l)
    /\ l.updatedAt > l.createdAt
    /\ l.lastClicked # NULL

\* r answers in this step
Answers(r) == req[r].pc # "done" /\ req'[r].pc = "done"

\* C25 (as claimed): a create answers 201, 400, 409 or 500 and nothing else:
\* 400 as InvalidTarget or InvalidCode, 500 as ExhaustedCodeSpace or a store
\* failure; and a create with a valid target and a valid custom code answers
\* 409 whenever, and only when, a live Link holds that code as it answers.
C25_StatusMapping ==
  [][ \A r \in Req :
        Answers(r) /\ IsCreate(r)'
        => /\ req'[r].status \in { 201, 400, 409, 500 }
           /\ req'[r].status = 400 => InvalidTarget(r)' \/ InvalidCode(r)'
           /\ req'[r].status = 409 => CustomGiven(req'[r].custom)
           /\ ( /\ ValidTarget(r)'
                /\ CustomGiven(req'[r].custom)
                /\ isValidCode(The(req'[r].custom)) )
              => ( req'[r].status = 409
                     <=> FindUnique(links, The(req'[r].custom)) # NULL ) ]_vars

\* the resolves that had answered with a redirect when g arrived, their click
\* counted on the row of the given id
C26_ResolvedBefore(g, id) ==
  { r \in Req : /\ IsResolve(r) /\ req[r].status = 302 /\ Before(r, g)
                /\ \E h \in req[r].hit : h.id = id }

\* C26 (as claimed): a get shows clicks equal to the number of resolutions of
\* the Link completed before it (added to what the Link had when the server
\* started) and, if there were any, lastClicked set; and in every reachable
\* state a live Link with a lastClicked has lastClicked >= createdAt.
C26_GetShowsClicks ==
  /\ \A g \in Req :
       IsGet(g) /\ req[g].status = 200
       => \A b \in req[g].body :
            /\ b.clicks = C3_ClicksBefore(b) + Cardinality(C26_ResolvedBefore(g, b.id))
            /\ b.clicks > 0 => b.lastClicked # NULL
  /\ \A l \in links :
       \A t \in l.lastClicked : t >= l.createdAt

\* a store call of r fails in this step
C27_Fails(r) == req[r].fault = "" /\ req'[r].fault # ""

\* C27: a step in which a store call of a create or a resolve fails ends the
\* request with 500, having issued that one call and not issued it again, and
\* leaves the table unchanged; the request makes no step afterwards, so a
\* create that fails this way has inserted no Link.
C27_StorageFailureEnds ==
  [][ \A r \in Req :
        /\ C27_Fails(r)
           => /\ req'[r].kind \in { "create", "resolve" }
              /\ req'[r].pc = "done"
              /\ req'[r].status = 500
              /\ req'[r].ops = Append(req[r].ops, req'[r].fault)
              /\ req'[r].body = NULL /\ req'[r].location = NULL
              /\ links' = links
              /\ nextId' = nextId
        /\ req[r].fault # "" => req'[r] = req[r] ]_vars

\* C27 witness: a create without a code whose insert failed after one
\* candidate had collided; no Link has the code it was inserting.
C27_Witness ==
  \E r \in Req :
    /\ IsCreate(r) /\ req[r].custom = NULL
    /\ req[r].fault = "create" /\ req[r].attempts > 0
    /\ req[r].status = 500
    /\ \A l \in links : l.code # req[r].code

\* the step adds exactly 1 to the clicks of the Link of code c, with the
\* timestamps of r's update, and changes nothing else in the table
C28_CommitsIncrement(r, c) ==
  \E l \in links :
    /\ l.code = c
    /\ links' = (links \ { l }) \cup
         { [l EXCEPT !.clicks = @ + 1, !.lastClicked = req[r].at, !.updatedAt = now] }

\* C28: a resolve's answer becomes a 302 redirect only in the step of its
\* update, after its lookup, and that step commits exactly one increment; a
\* step of its update that commits none (the update threw) answers 500; and
\* no answer other than a 302 carries a redirect location.
C28_RedirectAfterCommit ==
  [][ \A r \in Req :
        IsResolve(r)' /\ req'[r] # req[r]
        => /\ req'[r].status = 302
                => /\ req[r].pc = "update" /\ req'[r].pc = "done"
                   /\ req'[r].ops = << "findUnique", "update" >>
                   /\ req'[r].location # NULL
                   /\ C28_CommitsIncrement(r, req[r].code)
           /\ req[r].pc = "update" /\ links' = links
                => req'[r].status = 500 /\ req'[r].pc = "done"
           /\ req'[r].status # 302 => req'[r].location = NULL /\ links' = links ]_vars

\* C28 witness: one resolve redirected, having counted; another's update
\* threw, and it answered 500 with no location.
C28_Witness ==
  \E r \in Req, s \in Req :
    /\ IsResolve(r) /\ req[r].status = 302 /\ req[r].hit # NULL
    /\ IsResolve(s) /\ req[s].status = 500 /\ req[s].location = NULL
    /\ Count(s, "update") = 1

\* C29 (as claimed): a create with a valid target and no code that fails
\* either saw all 10 of its candidates collide with live Links or had a store
\* call fail for a reason of the store's own; a code inserted by a concurrent
\* create between its lookup and its insert does not make it fail.
C29_AutoCreateFailsOnlyExhausted ==
  \A r \in Req :
    AutoCreate(r) /\ Done(r) /\ req[r].status # 201
    => \/ req[r].attempts = maxAttempts /\ Count(r, "create") = 0
       \/ req[r].fault # ""

\* the creates that have answered 201
C30_Created == { r \in Req : IsCreate(r) /\ req[r].status = 201 }

\* the rows inserted since the server started, deleted since or not
C30_Inserted == nextId - 1

\* C30: a step of a create that does not end in 201 leaves the table as it
\* is; the step in which a create answers 201 adds the one row it returns, a
\* row that was not there, and removes or changes none; and at any moment
\* the rows inserted so far are as many as the 201 answers, each answer with
\* a row of its own.
C30_CreateAllOrNothing ==
  /\ [](/\ C30_Inserted = Cardinality(C30_Created)
        /\ \A r \in C30_Created, s \in C30_Created :
             r # s => \A b \in req[r].body, d \in req[s].body : b.id # d.id)
  /\ [][ \A r \in Req :
           IsCreate(r)' /\ req'[r] # req[r]
           => IF req'[r].status = 201
                THEN /\ req[r].status # 201
                     /\ req'[r].body # NULL
                     /\ \A b \in req'[r].body :
                          /\ \A l \in links : l.id # b.id /\ l.code # b.code
                          /\ links' = links \cup { b }
                ELSE links' = links /\ nextId' = nextId ]_vars

\* C30 witness: two creates of one free code raced to the insert; the loser
\* answered 500 and the table holds the winner's row only.
C30_Witness ==
  \E r \in Req, s \in Req :
    /\ r # s /\ IsCreate(r) /\ IsCreate(s) /\ s \in req[r].conc
    /\ req[r].code = req[s].code
    /\ req[r].status = 201 /\ req[s].status = 500
    /\ Count(s, "create") = 1
    /\ FindUnique(links, req[r].code) = req[r].body

\* the resolves of code c that answered with a redirect
C31_Successful(c) == { r \in Redirected : req[r].code = c }

\* the timestamps those resolves took for lastClicked
C31_Taken(c) == UNION { req[r].at : r \in C31_Successful(c) }

\* C31 (as claimed): the lastClicked of a Link never moves backwards; and
\* when the resolves of a Link that was never deleted have all answered, and
\* some of them redirected, lastClicked is the latest of the timestamps they
\* took, in whatever order their updates were committed.
C31_LastClickedMonotone ==
  /\ [][ \A l \in links, k \in links' :
           l.id = k.id
           => \A t \in l.lastClicked :
                k.lastClicked # NULL /\ \A u \in k.lastClicked : u >= t ]_vars
  /\ [](\A l \in links :
          ( /\ ~DeleteSeen(l.code)
            /\ \A r \in Req : IsResolve(r) /\ req[r].code = l.code => Done(r)
            /\ C31_Successful(l.code) # {} )
          => /\ l.lastClicked # NULL
             /\ \A u \in l.lastClicked, t \in C31_Taken(l.code) : u >= t)

\* the store calls r has made are within what its handler can make
C32_CallsBounded(r) ==
  /\ IsCreate(r) /\ CustomGiven(req[r].custom)
       => Count(r, "findUnique") <= 1 /\ Count(r, "create") <= 1 /\ Len(req[r].ops) <= 2
  /\ IsCreate(r) /\ ~CustomGiven(req[r].custom)
       => /\ Count(r, "findUnique") <= maxAttempts
          /\ Count(r, "create") <= 1
          /\ Len(req[r].ops) <= maxAttempts + 1
  /\ IsResolve(r)
       => Count(r, "findUnique") <= 1 /\ Count(r, "update") <= 1 /\ Len(req[r].ops) <= 2
  /\ IsList(r) => req[r].ops = << "findMany" >>

\* r has arrived and has not answered
C32_Pending(r) ==
  req[r].kind \in { "create", "resolve", "list" } /\ req[r].pc \notin { "idle", "done" }

\* C32: a create makes at most 10 lookups and 1 insert (1 lookup and 1 insert
\* with a custom code), a resolve at most 1 lookup and 1 update, a list 1
\* findMany; a request that has answered does nothing more and its answer
\* does not change; and, every store call returning or throwing, again and
\* again every request that has arrived has answered (an answered request
\* stays answered, so each request that arrives answers).
C32_AnswersOnce ==
  /\ [](\A r \in Req : C32_CallsBounded(r))
  /\ [][ \A r \in Req : Done(r) => req'[r] = req[r] ]_vars
  /\ []<>(\A r \in Req : ~C32_Pending(r) /\ (req[r].pc # "idle" => req[r].status # 0))

\* C32 witness: a create without a code answered 201 after a candidate of
\* its collided, and a resolve that overlapped it answered.
C32_Witness ==
  \E r \in Req, s \in Req :
    /\ AutoCreate(r) /\ Done(r) /\ req[r].status = 201
    /\ req[r].attempts >= 1 /\ Count(r, "findUnique") = req[r].attempts + 1
    /\ IsResolve(s) /\ Done(s) /\ Count(s, "update") = 1
    /\ Overlap(r, s)

\* r is a get or a list, and s is the same request sent again later, with
\* no change to the table between the two: every request that arrived
\* between them is a get or a list, and the requests in flight when s
\* arrived are those in flight when r arrived (a create or a resolve answers
\* in the step in which it writes)
C33_ReadAgain(r, s) ==
  /\ r < s /\ Done(r) /\ Done(s)
  /\ req[r].kind \in { "get", "list" }
  /\ req[s].kind = req[r].kind /\ req[s].code = req[r].code
  /\ \A o \in Req : r < o /\ o < s => req[o].kind \in { "get", "list" }
  /\ req[s].conc = req[r].conc

\* the rows of an answer: of a list, whatever the order of the rows of equal
\* createdAt; of a get, the row
C33_Rows(r) ==
  IF IsList(r) THEN UNION { Range(found) : found \in req[r].body } ELSE req[r].body

\* s sends again the body of r, a create without a code that answered 201
\* and whose Link was not deleted
C33_CreateAgain(r, s) ==
  /\ r # s
  /\ AutoCreate(r) /\ req[r].status = 201
  /\ AutoCreate(s) /\ req[s].status = 201
  /\ req[s].target = req[r].target
  /\ ~DeleteSeen(req[r].code) /\ ~DeleteSeen(req[s].code)

\* C33: a get or a list sent again with no change to the table in between
\* answers with the same status and the same rows, and the step in which a
\* get or a list answers leaves the table as it is; a create without a code
\* that answered 201 and is sent again answers with a Link of another id and
\* another code, both Links are live, and the step of each 201 adds one row.
C33_RetryReadsNotCreates ==
  /\ [](\A r \in Req, s \in Req :
          /\ C33_ReadAgain(r, s)
               => req[s].status = req[r].status /\ C33_Rows(s) = C33_Rows(r)
          /\ C33_CreateAgain(r, s)
               => \A b \in req[r].body, d \in req[s].body :
                    /\ b.id # d.id /\ b.code # d.code
                    /\ FindUnique(links, b.code) # NULL
                    /\ FindUnique(links, d.code) # NULL)
  /\ [][ \A r \in Req :
           /\ req[r].pc = "idle" /\ req'[r].kind \in { "get", "list" }
                => links' = links /\ nextId' = nextId
           /\ AutoCreate(r)' /\ req[r].status # 201 /\ req'[r].status = 201
                => Cardinality(links') = Cardinality(links) + 1 ]_vars

\* C33 witness: a create without a code answered 201, the same body sent
\* again answered 201 too, and the table holds two Links of that target with
\* different codes.
C33_Witness ==
  \E r \in Req, s \in Req :
    /\ C33_CreateAgain(r, s) /\ Before(r, s)
    /\ \E b \in req[r].body, d \in req[s].body :
         /\ b.targetUrl = d.targetUrl /\ b.code # d.code
         /\ { b, d } \subseteq links

\* the Dashboard processes the NotFound answer to its delete request r
C34_HandlesNotFound(r) ==
  /\ req[r].kind = "delete" /\ req[r].status = 404
  /\ r \notin dash.handled /\ r \in dash'.handled

\* the step calls fetchLinks
C34_Refreshes ==
  /\ dash'.loading
  /\ \E f \in Req : req[f].pc = "idle" /\ req'[f].kind = "list" /\ req'[f].pc = "sent"

\* C34 (as claimed): when the Dashboard processes a 404 answer to its delete
\* it reports no failure (no alert) and refreshes its list, as after a
\* successful delete.
C34_NotFoundIsAlreadyGone ==
  [][ \A r \in Req :
        C34_HandlesNotFound(r) => dash'.alerts = dash.alerts /\ C34_Refreshes ]_vars

\* the list fetches the Dashboard has started, and those still in flight
C35_Fetches == { r \in Req : req[r].kind = "list" /\ req[r].pc # "idle" }

C35_InFlight == { r \in C35_Fetches : r \notin dash.handled }

\* the fetch started last (requests take their slots in the order they start)
C35_Latest == CHOOSE r \in C35_Fetches : \A s \in C35_Fetches : s <= r

\* C35 (as claimed): when no list fetch of the Dashboard is in flight the
\* loading flag is false once a fetch has completed, and the list shown is
\* the result of the fetch that started last, in whatever order the
\* responses arrived.
C35_ShowsLatestFetch ==
  C35_Fetches # {} /\ C35_InFlight = {}
  => /\ ~dash.loading
     /\ req[C35_Latest].status = 200 => dash.links = The(req[C35_Latest].body)

====
